---- MODULE Spec2Model ----
(***************************************************************************)
(* Timeline data transforms of the patient chart: parseEntries (the entry  *)
(* grouper), parseTime (the time axis parser) and the three memoized hooks *)
(* useTimelineData, useAllTimelineData and usePatientPanels.               *)
(*                                                                         *)
(* JavaScript arrays are 0-based; a JS array is modelled as a TLA+         *)
(* sequence whose element k+1 is the JS element k.  A JS object whose key  *)
(* order matters (rows, sortedObs) is modelled as the sequence of its      *)
(* [key, value] pairs in Object.entries order.                             *)
(***************************************************************************)
EXTENDS Integers, Sequences, FiniteSets, TLC

VARIABLES
  entries,        \* parseEntries: argument `entries`
  type,           \* parseEntries: argument `type`
  rows,           \* parseEntries: the returned rows
  pcEntries,      \* "call" before parseEntries ran, "done" after, "idle" when unused
  sortedTimes,    \* parseTime: argument `sortedTimes`
  parsedTime,     \* parseTime: the returned object
  pcTime,         \* "call" / "done" / "idle"
  upstream,       \* what usePatientResultsData returned on the current render
  panelUuid,      \* the panelUuid argument on the current render
  memoTimeline,   \* useMemo cell of useTimelineData: [deps, value]
  memoAll,        \* useMemo cell of useAllTimelineData
  memoPanels,     \* useMemo cell of usePatientPanels
  recomputed,     \* the hooks whose useMemo factory ran on the current render
  pcHooks         \* "mounted" / "idle"

vars == <<entries, type, rows, pcEntries, sortedTimes, parsedTime, pcTime,
          upstream, panelUuid, memoTimeline, memoAll, memoPanels, recomputed, pcHooks>>

entriesVars == <<entries, type, rows, pcEntries>>
timeVars == <<sortedTimes, parsedTime, pcTime>>
hookVars == <<upstream, panelUuid, memoTimeline, memoAll, memoPanels, recomputed, pcHooks>>

-----------------------------------------------------------------------------
(* Bounds of the model *)

MaxEntries == 3
MaxTimes == 3
MaxPanels == 2
NumObjIds == 2

-----------------------------------------------------------------------------
(* JavaScript values *)

Undefined == "undefined"
EmptyObj == << >>
UndefinedCell == [tag |-> "undefined"]
Hole == [tag |-> "hole"]

Max(a, b) == IF a >= b THEN a ELSE b

SeqsUpTo(S, n) == UNION {[1..k -> S] : k \in 0..n}

-----------------------------------------------------------------------------
(* Timestamps and dayjs *)

Years == {2022, 2023}
Months == {1, 6}
Days == {5, 20}
Hours == {8}
Minutes == {30}
T0 == [y |-> 2023, mo |-> 1, d |-> 5, h |-> 8, mi |-> 30]

DateTimes == [y : Years, mo : Months, d : Days, h : Hours, mi : Minutes]

MonthAbbr == <<"Jan", "Feb", "Mar", "Apr", "May", "Jun", "Jul", "Aug", "Sep", "Oct", "Nov", "Dec">>

Pad2(n) == IF n < 10 THEN "0" \o ToString(n) ELSE ToString(n)

DayjsYearString(datetime) == ToString(datetime.y)

DayjsFormatDate(datetime) == Pad2(datetime.d) \o " - " \o MonthAbbr[datetime.mo]

DayjsFormatTime(datetime) == Pad2(datetime.h) \o ":" \o Pad2(datetime.mi)

-----------------------------------------------------------------------------
(* parseTime *)

\* Array.prototype.find returns the first match: the least index of S, 0 when
\* there is none
FirstIndex(S) == IF S = {} THEN 0 ELSE CHOOSE k \in S : \A j \in S : k <= j

\* yearColumns.find(({ year: innerYear }) => year === innerYear)
FindYear(yearColumns, year) ==
  FirstIndex({k \in 1..Len(yearColumns) : yearColumns[k].year = year})

\* dayColumns.find(({ year: innerYear, day: innerDay }) => date === innerDay && year === innerYear)
FindDay(dayColumns, year, date) ==
  FirstIndex({k \in 1..Len(dayColumns) : dayColumns[k].day = date /\ dayColumns[k].year = year})

AddYearNoCount(yearColumns, year) ==
  LET k == FindYear(yearColumns, year)
  IN IF k # 0 THEN yearColumns
     ELSE Append(yearColumns, [year |-> year, size |-> 1])

AddYear(yearColumns, year) ==
  LET k == FindYear(yearColumns, year)
  IN IF k # 0 THEN [yearColumns EXCEPT ![k].size = @ + 1]
     ELSE Append(yearColumns, [year |-> year, size |-> 1])

AddDay(dayColumns, year, date) ==
  LET k == FindDay(dayColumns, year, date)
  IN IF k # 0 THEN [dayColumns EXCEPT ![k].size = @ + 1]
     ELSE Append(dayColumns, [day |-> date, year |-> year, size |-> 1])

ParseTimeStep(acc, datetime) ==
  LET year == DayjsYearString(datetime)
      date == DayjsFormatDate(datetime)
      time == DayjsFormatTime(datetime)
  IN [yearColumns |-> AddYear(acc.yearColumns, year),
      dayColumns |-> AddDay(acc.dayColumns, year, date),
      timeColumns |-> Append(acc.timeColumns, time)]

RECURSIVE ParseTimeLoop(_, _, _)
ParseTimeLoop(acc, times, i) ==
  IF i > Len(times) THEN acc
  ELSE ParseTimeLoop(ParseTimeStep(acc, times[i]), times, i + 1)

parseTime(times) ==
  LET acc == ParseTimeLoop([yearColumns |-> <<>>, dayColumns |-> <<>>, timeColumns |-> <<>>], times, 1)
  IN [yearColumns |-> acc.yearColumns,
      dayColumns |-> acc.dayColumns,
      timeColumns |-> acc.timeColumns,
      sortedTimes |-> times]

-----------------------------------------------------------------------------
(* parseEntries *)

Names == {"Glucose", "Sodium"}
Uuids == {"o1", "o2"}

Leaves == [name : Names, uuid : Uuids, effectiveDateTime : {T0}, members : {<<>>}]

G1 == [name |-> "Glucose", uuid |-> "o1", effectiveDateTime |-> T0, members |-> <<>>]
G2 == [name |-> "Glucose", uuid |-> "o2", effectiveDateTime |-> T0, members |-> <<>>]
S1 == [name |-> "Sodium", uuid |-> "o1", effectiveDateTime |-> T0, members |-> <<>>]

\* the members of a LabSet entry: none, one, several names, one name twice
MemberLists ==
  {<<>>, <<G1>>, <<S1>>, <<G1, S1>>, <<G1, G2>>, <<G2, G1>>, <<S1, G2>>, <<G1, S1, G2>>}

LabSetEntries ==
  [name : {"Panel"}, uuid : {"s1"}, effectiveDateTime : {T0}, members : MemberLists]

\* row[index] = member on a JS array: the array grows to index + 1, the new
\* positions below index are holes.
ArraySet(row, index, member) ==
  [k \in 1..Max(Len(row), index + 1) |->
     IF k = index + 1 THEN member
     ELSE IF k <= Len(row) THEN row[k]
     ELSE Hole]

\* rows[name]: the position of the row keyed by name, 0 when there is none
FindRow(rs, name) == FirstIndex({k \in 1..Len(rs) : rs[k].key = name})

PutAppend(rs, name, index, member) ==
  Append(rs, [key |-> name, value |-> ArraySet(<<>>, index, member)])

\* const row = rows[name] || (rows[name] = []); row[index] = member;
Put(rs, name, index, member) ==
  LET k == FindRow(rs, name)
  IN IF k # 0 THEN [rs EXCEPT ![k].value = ArraySet(@, index, member)]
     ELSE Append(rs, [key |-> name, value |-> ArraySet(<<>>, index, member)])

RECURSIVE MembersLoopOwnIndex(_, _, _, _)
MembersLoopOwnIndex(rs, members, index, j) ==
  IF j > Len(members) THEN rs
  ELSE MembersLoopOwnIndex(Put(rs, members[j].name, j - 1, members[j]), members, index, j + 1)

RECURSIVE MembersLoop(_, _, _, _)
MembersLoop(rs, members, index, j) ==
  IF j > Len(members) THEN rs
  ELSE MembersLoop(Put(rs, members[j].name, index, members[j]), members, index, j + 1)

RECURSIVE LabSetLoop(_, _, _)
LabSetLoop(rs, es, i) ==
  IF i > Len(es) THEN rs
  ELSE LabSetLoop(MembersLoop(rs, es[i].members, i - 1, 1), es, i + 1)

RECURSIVE TestLoop(_, _, _)
TestLoop(rs, es, i) ==
  IF i > Len(es) THEN rs
  ELSE TestLoop(Put(rs, es[i].name, i - 1, es[i]), es, i + 1)

SpreadKeepHoles(value) == value

\* [...value]: the copy has the same length, every hole becomes undefined
Spread(value) ==
  [k \in 1..Len(value) |-> IF value[k] = Hole THEN UndefinedCell ELSE value[k]]

parseEntries(es, t) ==
  LET filled == IF t = "LabSet" THEN LabSetLoop(<<>>, es, 1)
                ELSE IF t = "Test" THEN TestLoop(<<>>, es, 1)
                ELSE <<>>
  IN [k \in 1..Len(filled) |-> [key |-> filled[k].key, value |-> Spread(filled[k].value)]]

-----------------------------------------------------------------------------
(* The pure functions as state machines: the arguments are drawn in Init *)

EntryInputs ==
  ({"LabSet"} \X SeqsUpTo(LabSetEntries, MaxEntries))
    \cup ({"Test", "Other"} \X SeqsUpTo(Leaves, MaxEntries))

HooksIdle ==
  /\ upstream = [sortedObs |-> [defined |-> FALSE, id |-> 0, panels |-> <<>>],
                 loaded |-> FALSE, error |-> Undefined]
  /\ panelUuid = Undefined
  /\ memoTimeline = EmptyObj
  /\ memoAll = EmptyObj
  /\ memoPanels = EmptyObj
  /\ recomputed = {}
  /\ pcHooks = "idle"

EntriesIdle ==
  /\ entries = <<>>
  /\ type = "Other"
  /\ rows = <<>>
  /\ pcEntries = "idle"

TimeIdle ==
  /\ sortedTimes = <<>>
  /\ parsedTime = EmptyObj
  /\ pcTime = "idle"

InitEntries ==
  /\ \E in \in EntryInputs : type = in[1] /\ entries = in[2]
  /\ rows = <<>>
  /\ pcEntries = "call"
  /\ TimeIdle
  /\ HooksIdle

CallParseEntries ==
  /\ pcEntries = "call"
  /\ rows' = parseEntries(entries, type)
  /\ pcEntries' = "done"
  /\ UNCHANGED <<entries, type, timeVars, hookVars>>

NextEntries == CallParseEntries

SpecEntries == InitEntries /\ [][NextEntries]_vars

InitTime ==
  /\ sortedTimes \in SeqsUpTo(DateTimes, MaxTimes)
  /\ parsedTime = EmptyObj
  /\ pcTime = "call"
  /\ EntriesIdle
  /\ HooksIdle

CallParseTime ==
  /\ pcTime = "call"
  /\ parsedTime' = parseTime(sortedTimes)
  /\ pcTime' = "done"
  /\ UNCHANGED <<sortedTimes, entriesVars, hookVars>>

NextTime == CallParseTime

SpecTime == InitTime /\ [][NextTime]_vars

-----------------------------------------------------------------------------
(* usePatientResultsData results: sortedObs is a mapping from panel name to *)
(* {uuid, type, entries}, or undefined.  An object has an identity (id):    *)
(* useMemo compares dependencies with Object.is, so a new object with the   *)
(* same content is a changed dependency.                                    *)

Leaf(name, uuid, datetime) ==
  [name |-> name, uuid |-> uuid, effectiveDateTime |-> datetime, members |-> <<>>]

At(y, mo, d) == [y |-> y, mo |-> mo, d |-> d, h |-> 8, mi |-> 30]

PanelChemistry ==
  [key |-> "Chemistry",
   value |-> [uuid |-> "p1", type |-> "LabSet",
              entries |-> << [name |-> "Panel", uuid |-> "s1", effectiveDateTime |-> At(2022, 1, 5),
                              members |-> <<Leaf("Glucose", "o1", T0), Leaf("Sodium", "o1", T0)>>],
                             [name |-> "Panel", uuid |-> "s1", effectiveDateTime |-> At(2023, 6, 20),
                              members |-> <<Leaf("Glucose", "o2", T0)>>] >>]]

PanelHiv ==
  [key |-> "HIV viral load",
   value |-> [uuid |-> "p2", type |-> "Test",
              entries |-> << Leaf("Glucose", "o1", At(2023, 1, 5)), Leaf("Sodium", "o2", At(2023, 1, 20)) >>]]

PanelCbc ==
  [key |-> "CBC",
   value |-> [uuid |-> "p2", type |-> "Test",
              entries |-> << Leaf("Sodium", "o1", At(2022, 6, 5)) >>]]

PanelPool == {PanelChemistry, PanelHiv, PanelCbc}

PanelSeqs ==
  {ps \in SeqsUpTo(PanelPool, MaxPanels) : \A i, j \in 1..Len(ps) : ps[i].key = ps[j].key => i = j}

UndefinedObs == [defined |-> FALSE, id |-> 0, panels |-> <<>>]

SortedObsValues == {UndefinedObs} \cup [defined : {TRUE}, id : 1..NumObjIds, panels : PanelSeqs]

Errors == {Undefined, "fetch failed"}

Upstreams == [sortedObs : SortedObsValues, loaded : BOOLEAN, error : Errors]

PanelUuidArgs == {Undefined, "p1", "p2", "p9"}

-----------------------------------------------------------------------------
(* The hooks *)

NotReadyIgnoreError(sortedObs, loaded, error) == ~sortedObs.defined \/ ~loaded

\* !sortedObs || !loaded || !!error
NotReady(sortedObs, loaded, error) == ~sortedObs.defined \/ ~loaded \/ error # Undefined

Times(es) == [k \in 1..Len(es) |-> es[k].effectiveDateTime]

FindPanelOrAny(panels, uuid) ==
  IF uuid = Undefined /\ Len(panels) > 0 THEN 1
  ELSE FirstIndex({k \in 1..Len(panels) : panels[k].value.uuid = uuid})

\* Object.entries(sortedObs).find(([, { uuid }]) => uuid === panelUuid): the
\* position of the first match, 0 when find returns undefined
FindPanel(panels, uuid) == FirstIndex({k \in 1..Len(panels) : panels[k].value.uuid = uuid})

useTimelineData(sortedObs, loaded, error, uuid) ==
  IF NotReady(sortedObs, loaded, error)
  THEN [data |-> [parsedTime |-> EmptyObj], loaded |-> loaded, error |-> error]
  ELSE LET k == FindPanel(sortedObs.panels, uuid)
       IN IF k = 0
          THEN [data |-> [parsedTime |-> EmptyObj], loaded |-> loaded, error |-> "panel data missing"]
          ELSE LET panelName == sortedObs.panels[k].key
                   panelData == sortedObs.panels[k].value
                   times == Times(panelData.entries)
                   rowData == parseEntries(panelData.entries, panelData.type)
               IN [data |-> [parsedTime |-> parseTime(times), rowData |-> rowData, panelName |-> panelName],
                   loaded |-> TRUE]

RECURSIVE AllLoopUnshift(_, _, _)
AllLoopUnshift(outData, obs, i) ==
  IF i > Len(obs) THEN outData
  ELSE LET panelName == obs[i].key
           panelData == obs[i].value
           times == Times(panelData.entries)
           rowData == parseEntries(panelData.entries, panelData.type)
       IN AllLoopUnshift(<<[parsedTime |-> parseTime(times), rowData |-> rowData, panelName |-> panelName]>> \o outData,
                         obs, i + 1)

RECURSIVE AllLoop(_, _, _)
AllLoop(outData, obs, i) ==
  IF i > Len(obs) THEN outData
  ELSE LET panelName == obs[i].key
           panelData == obs[i].value
           times == Times(panelData.entries)
           rowData == parseEntries(panelData.entries, panelData.type)
       IN AllLoop(Append(outData, [parsedTime |-> parseTime(times), rowData |-> rowData, panelName |-> panelName]),
                  obs, i + 1)

useAllTimelineData(sortedObs, loaded, error) ==
  IF NotReady(sortedObs, loaded, error)
  THEN [data |-> <<[parsedTime |-> EmptyObj]>>, loaded |-> loaded, error |-> error]
  ELSE [data |-> AllLoop(<<>>, sortedObs.panels, 1), loaded |-> TRUE]

usePatientPanels(sortedObs, loaded, error) ==
  IF NotReady(sortedObs, loaded, error)
  THEN [data |-> <<[parsedTime |-> EmptyObj]>>, loaded |-> loaded, error |-> error]
  ELSE [loaded |-> TRUE,
        data |-> [k \in 1..Len(sortedObs.panels) |->
                    [key |-> sortedObs.panels[k].key, value |-> sortedObs.panels[k].value.uuid]]]

TimelineDepsNoPanel(u, uuid) == <<u.sortedObs, u.loaded, u.error>>

\* [sortedObs, loaded, error, panelUuid]
TimelineDeps(u, uuid) == <<u.sortedObs, u.loaded, u.error, uuid>>

\* [sortedObs, loaded, error]
UpstreamDeps(u) == <<u.sortedObs, u.loaded, u.error>>

\* useMemo on a re-render: the factory runs only when a dependency changed
UseMemo(memo, deps, value) ==
  IF deps # memo.deps THEN [deps |-> deps, value |-> value] ELSE memo

\* before the first render of the component that uses the hooks
InitHooks ==
  /\ upstream = [sortedObs |-> UndefinedObs, loaded |-> FALSE, error |-> Undefined]
  /\ panelUuid = Undefined
  /\ memoTimeline = EmptyObj
  /\ memoAll = EmptyObj
  /\ memoPanels = EmptyObj
  /\ recomputed = {}
  /\ pcHooks = "unmounted"
  /\ EntriesIdle
  /\ TimeIdle

\* the first render: every useMemo runs its factory
Mount ==
  /\ pcHooks = "unmounted"
  /\ \E u \in Upstreams, uuid \in PanelUuidArgs :
       /\ upstream' = u
       /\ panelUuid' = uuid
       /\ memoTimeline' = [deps |-> TimelineDeps(u, uuid),
                           value |-> useTimelineData(u.sortedObs, u.loaded, u.error, uuid)]
       /\ memoAll' = [deps |-> UpstreamDeps(u),
                      value |-> useAllTimelineData(u.sortedObs, u.loaded, u.error)]
       /\ memoPanels' = [deps |-> UpstreamDeps(u),
                         value |-> usePatientPanels(u.sortedObs, u.loaded, u.error)]
  /\ recomputed' = {"useTimelineData", "useAllTimelineData", "usePatientPanels"}
  /\ pcHooks' = "mounted"
  /\ UNCHANGED <<entriesVars, timeVars>>

\* A new sortedObs is either the object of the previous render or a different
\* object: the upstream result is read-only, an object is never changed in place.
SameOrFreshObject(old, new) ==
  new = old \/ ~new.defined \/ ~old.defined \/ new.id # old.id

Render ==
  /\ pcHooks = "mounted"
  /\ \E u \in Upstreams, uuid \in PanelUuidArgs :
       /\ SameOrFreshObject(upstream.sortedObs, u.sortedObs)
       /\ upstream' = u
       /\ panelUuid' = uuid
       /\ memoTimeline' = UseMemo(memoTimeline, TimelineDeps(u, uuid),
                                  useTimelineData(u.sortedObs, u.loaded, u.error, uuid))
       /\ memoAll' = UseMemo(memoAll, UpstreamDeps(u),
                             useAllTimelineData(u.sortedObs, u.loaded, u.error))
       /\ memoPanels' = UseMemo(memoPanels, UpstreamDeps(u),
                                usePatientPanels(u.sortedObs, u.loaded, u.error))
       /\ recomputed' =
            (IF TimelineDeps(u, uuid) # memoTimeline.deps THEN {"useTimelineData"} ELSE {})
              \cup (IF UpstreamDeps(u) # memoAll.deps THEN {"useAllTimelineData"} ELSE {})
              \cup (IF UpstreamDeps(u) # memoPanels.deps THEN {"usePatientPanels"} ELSE {})
  /\ pcHooks' = "mounted"
  /\ UNCHANGED <<entriesVars, timeVars>>

NextHooks == Mount \/ Render

SpecHooks == InitHooks /\ [][NextHooks]_vars

-----------------------------------------------------------------------------
(* Properties of parseEntries *)

HasRow(n) == \E k \in 1..Len(rows) : rows[k].key = n

RowOf(n) == rows[FindRow(rows, n)].value

\* rows[n][i] as JavaScript reads it: undefined when the row or the position is missing
Stored(n, i) ==
  IF HasRow(n) /\ i + 1 <= Len(RowOf(n)) THEN RowOf(n)[i + 1] ELSE UndefinedCell

IsRecordCell(c) == c # UndefinedCell /\ c # Hole

Indices == 0..(Len(entries) - 1)

MembersNamed(i, n) == {j \in 1..Len(entries[i + 1].members) : entries[i + 1].members[j].name = n}

LastMemberNamed(i, n) ==
  entries[i + 1].members[CHOOSE j \in MembersNamed(i, n) : \A j2 \in MembersNamed(i, n) : j2 <= j]

KeysDistinct == \A k1, k2 \in 1..Len(rows) : rows[k1].key = rows[k2].key => k1 = k2

\* C1 (as stated): with kind "LabSet", member record m is stored in row m.name at
\* column i if and only if m is a member of the top-level entry at index i;
\* every other position of the row is absent.
C1_MemberStoredIffMember ==
  (pcEntries = "done" /\ type = "LabSet") =>
    \A m \in Leaves : \A i \in Indices :
      (Stored(m.name, i) = m) <=> (\E j \in 1..Len(entries[i + 1].members) : entries[i + 1].members[j] = m)

\* C1 (amended): with kind "LabSet", row n holds at column i (the parent's
\* index) the LAST member named n of the top-level entry at index i when that
\* entry has a member named n, and is absent there otherwise; a row exists
\* only for a name some member carries.
C1_LastMemberStored ==
  (pcEntries = "done" /\ type = "LabSet") =>
    /\ KeysDistinct
    /\ \A n \in Names :
         /\ HasRow(n) <=> (\E i \in Indices : MembersNamed(i, n) # {})
         /\ \A i \in Indices :
              Stored(n, i) = IF MembersNamed(i, n) # {} THEN LastMemberNamed(i, n) ELSE UndefinedCell
         /\ HasRow(n) => Len(RowOf(n)) <= Len(entries)

\* a member name present in entries 1 and 2 but not in entry 0, and an entry
\* holding two different members of one name
C1_Witness ==
  /\ pcEntries = "done" /\ type = "LabSet" /\ Len(entries) = 3
  /\ \E n \in Names :
       /\ MembersNamed(0, n) = {} /\ MembersNamed(1, n) # {} /\ MembersNamed(2, n) # {}
       /\ Stored(n, 0) = UndefinedCell /\ IsRecordCell(Stored(n, 1))
       /\ Cardinality(MembersNamed(2, n)) = 2
       /\ entries[3].members[1] # entries[3].members[2]

\* C2: with kind "Test", the number of rows is the number of distinct names
\* among the entries, and row n is populated at index i exactly when the entry
\* at index i is named n, and then it holds that entry.
C2_TestRows ==
  (pcEntries = "done" /\ type = "Test") =>
    /\ Len(rows) = Cardinality({entries[k].name : k \in 1..Len(entries)})
    /\ \A n \in Names : \A i \in Indices :
         /\ IsRecordCell(Stored(n, i)) <=> entries[i + 1].name = n
         /\ entries[i + 1].name = n => Stored(n, i) = entries[i + 1]
         /\ Stored(n, i) # Hole

C2_Witness ==
  /\ pcEntries = "done" /\ type = "Test" /\ Len(entries) = 3
  /\ entries[1].name = entries[3].name /\ entries[1].name # entries[2].name
  /\ Len(rows) = 2

RecordIndices(value) == {k \in 1..Len(value) : IsRecordCell(value[k])}

MaxRecordIndex ==
  CHOOSE p \in 0..Len(entries) :
    /\ \A k \in 1..Len(rows) : \A q \in RecordIndices(rows[k].value) : q <= p
    /\ p = 0 \/ \E k \in 1..Len(rows) : p \in RecordIndices(rows[k].value)

\* C3 (as stated): every row has a position (a record or an explicit absent
\* marker) for every index from 0 up to the maximum index at which ANY row
\* holds a record, so no row is shorter than another.
C3_RowsSameRange ==
  (pcEntries = "done") =>
    \A k \in 1..Len(rows) :
      /\ Len(rows[k].value) = MaxRecordIndex
      /\ \A p \in 1..Len(rows[k].value) : rows[k].value[p] # Hole

\* C3 (amended): every row has a position (a record or an explicit absent
\* marker, never a hole) for every index from 0 up to the maximum index at
\* which THAT row holds a record, and none beyond it.
C3_RowsOwnRange ==
  (pcEntries = "done") =>
    \A k \in 1..Len(rows) :
      /\ Len(rows[k].value) >= 1
      /\ IsRecordCell(rows[k].value[Len(rows[k].value)])
      /\ \A p \in 1..Len(rows[k].value) : rows[k].value[p] # Hole

\* a row shorter than another, and a row with an explicit absent marker inside
C3_Witness ==
  /\ pcEntries = "done"
  /\ \E k1, k2 \in 1..Len(rows) : Len(rows[k1].value) < Len(rows[k2].value)
  /\ \E k \in 1..Len(rows) : \E p \in 1..Len(rows[k].value) : rows[k].value[p] = UndefinedCell

-----------------------------------------------------------------------------
(* Properties of parseTime *)

RECURSIVE SumSize(_)
SumSize(cols) == IF cols = <<>> THEN 0 ELSE cols[1].size + SumSize(Tail(cols))

\* C4: for a non-empty input, the number of timeColumns equals the number of
\* input timestamps (echoed unchanged as sortedTimes), the sum of the sizes of
\* yearColumns and the sum of the sizes of dayColumns.
C4_SizesAddUp ==
  (pcTime = "done" /\ sortedTimes # <<>>) =>
    /\ parsedTime.sortedTimes = sortedTimes
    /\ Len(parsedTime.timeColumns) = Len(sortedTimes)
    /\ SumSize(parsedTime.yearColumns) = Len(sortedTimes)
    /\ SumSize(parsedTime.dayColumns) = Len(sortedTimes)

C4_Witness ==
  /\ pcTime = "done" /\ Len(sortedTimes) = 3
  /\ Len(parsedTime.yearColumns) = 2
  /\ Len(parsedTime.dayColumns) = 2

RECURSIVE ExpandYears(_)
ExpandYears(cols) ==
  IF cols = <<>> THEN <<>>
  ELSE [k \in 1..cols[1].size |-> cols[1].year] \o ExpandYears(Tail(cols))

RECURSIVE ExpandDays(_)
ExpandDays(cols) ==
  IF cols = <<>> THEN <<>>
  ELSE [k \in 1..cols[1].size |-> <<cols[1].year, cols[1].day>>] \o ExpandDays(Tail(cols))

\* C5: for input in any order, yearColumns is the run-length encoding of the
\* input by consecutive equal year (no two neighbouring columns share a year,
\* and expanding the columns by size gives the year of the i-th timestamp at
\* position i); dayColumns likewise by the (year, day) pair.
C5_RunLengthEncoding ==
  (pcTime = "done") =>
    /\ ExpandYears(parsedTime.yearColumns) =
         [i \in 1..Len(sortedTimes) |-> DayjsYearString(sortedTimes[i])]
    /\ ExpandDays(parsedTime.dayColumns) =
         [i \in 1..Len(sortedTimes) |-> <<DayjsYearString(sortedTimes[i]), DayjsFormatDate(sortedTimes[i])>>]
    /\ \A k \in 1..(Len(parsedTime.yearColumns) - 1) :
         parsedTime.yearColumns[k].year # parsedTime.yearColumns[k + 1].year

-----------------------------------------------------------------------------
(* Properties of the hooks *)

Ready == upstream.sortedObs.defined /\ upstream.loaded /\ upstream.error = Undefined

Panels == upstream.sortedObs.panels

MatchingPanels == {k \in 1..Len(Panels) : Panels[k].value.uuid = panelUuid}

FirstMatch == CHOOSE k \in MatchingPanels : \A k2 \in MatchingPanels : k <= k2

PanelResult(p) ==
  [parsedTime |-> parseTime([i \in 1..Len(p.value.entries) |-> p.value.entries[i].effectiveDateTime]),
   rowData |-> parseEntries(p.value.entries, p.value.type),
   panelName |-> p.key]

\* C6: in all three hooks, when sortedObs is missing, loaded is false or error
\* is set, the result carries the upstream loaded and error unchanged and the
\* placeholder data (no transform); transformed data appears only when loaded
\* is true and error is unset.
C6_NotReadyPassThrough ==
  (pcHooks = "mounted") =>
    /\ ~Ready =>
         /\ memoTimeline.value =
              [data |-> [parsedTime |-> EmptyObj], loaded |-> upstream.loaded, error |-> upstream.error]
         /\ memoAll.value =
              [data |-> <<[parsedTime |-> EmptyObj]>>, loaded |-> upstream.loaded, error |-> upstream.error]
         /\ memoPanels.value =
              [data |-> <<[parsedTime |-> EmptyObj]>>, loaded |-> upstream.loaded, error |-> upstream.error]
    /\ ("rowData" \in DOMAIN memoTimeline.value.data) => (upstream.loaded /\ upstream.error = Undefined)
    /\ (memoAll.value.data # <<[parsedTime |-> EmptyObj]>>) => (upstream.loaded /\ upstream.error = Undefined)
    /\ (memoPanels.value.data # <<[parsedTime |-> EmptyObj]>>) => (upstream.loaded /\ upstream.error = Undefined)

\* the upstream reports an error although it is loaded and has panels
C6_Witness ==
  /\ pcHooks = "mounted"
  /\ upstream.sortedObs.defined /\ Len(Panels) = 2 /\ upstream.loaded
  /\ upstream.error = "fetch failed"
  /\ panelUuid = Panels[1].value.uuid
  /\ memoTimeline.value.error = "fetch failed"
  /\ memoAll.value.error = "fetch failed"
  /\ memoPanels.value.error = "fetch failed"

\* C7: in useTimelineData with upstream data ready, when no panel has the
\* requested uuid the result is {data: {parsedTime: {}}, loaded: <upstream
\* loaded>, error: Error("panel data missing")} without rowData or panelName;
\* when a panel matches, the result has no error and carries that panel's
\* name, grouped rows and parsed time axis.
C7_PanelMissingOrFound ==
  (pcHooks = "mounted" /\ Ready) =>
    IF MatchingPanels = {}
    THEN memoTimeline.value =
           [data |-> [parsedTime |-> EmptyObj], loaded |-> upstream.loaded, error |-> "panel data missing"]
    ELSE /\ "error" \notin DOMAIN memoTimeline.value
         /\ memoTimeline.value.loaded = TRUE
         /\ memoTimeline.value.data = PanelResult(Panels[FirstMatch])

\* panels are there, none has the requested uuid
C7_Witness ==
  /\ pcHooks = "mounted" /\ Ready
  /\ Len(Panels) = 2 /\ MatchingPanels = {}
  /\ memoTimeline.value.error = "panel data missing"

\* C8: useTimelineData called without a panelUuid, upstream data ready with at
\* least one panel: the result is some panel's timeline data, not an error.
C8_NoPanelUuidTakesAny ==
  (pcHooks = "mounted" /\ Ready /\ panelUuid = Undefined /\ Len(Panels) >= 1) =>
    /\ "error" \notin DOMAIN memoTimeline.value
    /\ \E k \in 1..Len(Panels) : memoTimeline.value.data = PanelResult(Panels[k])

\* C9: in useAllTimelineData with upstream data ready, the result list has one
\* element per key of sortedObs in iteration order, the k-th computed from the
\* k-th panel alone: its key, its grouped entries, its parsed entry times.
C9_OnePerPanelInOrder ==
  (pcHooks = "mounted" /\ Ready) =>
    /\ Len(memoAll.value.data) = Len(Panels)
    /\ \A k \in 1..Len(Panels) : memoAll.value.data[k] = PanelResult(Panels[k])
    /\ memoAll.value.loaded = TRUE
    /\ "error" \notin DOMAIN memoAll.value

C9_Witness ==
  /\ pcHooks = "mounted" /\ Ready
  /\ Len(Panels) = 2
  /\ Len(memoAll.value.data) = 2
  /\ memoAll.value.data[1].panelName # memoAll.value.data[2].panelName
  /\ memoAll.value.data[2].panelName = Panels[2].key

ValuesCurrent ==
  (pcHooks = "mounted") =>
    /\ memoTimeline.value = useTimelineData(upstream.sortedObs, upstream.loaded, upstream.error, panelUuid)
    /\ memoAll.value = useAllTimelineData(upstream.sortedObs, upstream.loaded, upstream.error)
    /\ memoPanels.value = usePatientPanels(upstream.sortedObs, upstream.loaded, upstream.error)

RecomputeOnlyOnChange ==
  (pcHooks = "mounted") =>
  /\ "useTimelineData" \in recomputed' => <<upstream, panelUuid>>' # <<upstream, panelUuid>>
  /\ "useAllTimelineData" \in recomputed' => upstream' # upstream
  /\ "usePatientPanels" \in recomputed' => upstream' # upstream

\* C10: over any sequence of renders, a hook recomputes its memoized result
\* only on a render where one of its inputs (sortedObs, loaded, error,
\* panelUuid) changed, and the value it returns on every render is the
\* transform of the inputs current at that render.
C10_MemoNeverStale == [] ValuesCurrent /\ [][RecomputeOnlyOnChange]_vars

\* a render on which only panelUuid changed: useTimelineData alone recomputed
C10_Witness ==
  /\ pcHooks = "mounted" /\ Ready
  /\ recomputed = {"useTimelineData"}
  /\ "rowData" \in DOMAIN memoTimeline.value.data
  /\ memoTimeline.value.data.panelName = "CBC"

====
